---------------------------- MODULE Spec2Model ----------------------------
(***************************************************************************)
(* A model of sms_simulator.py: main() partitions the produced messages,   *)
(* starts one thread per Sender running send_all(), and runs the Monitor,  *)
(* which polls is_sending and harvests the Senders' counters.              *)
(*                                                                         *)
(* Threads interleave at the granularity of a shared read or write: the    *)
(* statement  x += 1  is a read followed by a write, and the two tuple     *)
(* assignments of get_and_reset_stats are a read step and a write step.    *)
(* Labels Lnn are line numbers of sms_simulator.py.                        *)
(***************************************************************************)
EXTENDS Integers, Sequences, FiniteSets

VARIABLES
    args,             \* the argparse.Namespace handed to main
    pcMain,           \* position of main
    mainError,        \* exception that propagated out of main, or "none"
    chunked_messages, \* main: result of np.array_split
    threads,          \* main: number of threads appended and started
    joined,           \* main: number of threads joined
    sender,           \* the Sender objects (sequence of records)
    pc,               \* position of each Sender's thread
    tmp,              \* each Sender thread's operand stack during  x += 1
    pcMon,            \* position of Monitor.monitor
    mon,              \* Monitor fields and the locals of monitor()
    snapshot,         \* what the window shows (last emitted), <<>> before
    hist              \* history: what has happened so far (not program state)

vars == << args, pcMain, mainError, chunked_messages, threads, joined,
           sender, pc, tmp, pcMon, mon, snapshot, hist >>

(***************************************************************************)
(* Bounds of the model.                                                    *)
(***************************************************************************)
MaxMessages == 2        \* args.messages ranges over 0..MaxMessages
MaxSenders == 2         \* args.senders ranges over 0..MaxSenders
MaxFailedAttempts == 2  \* failed attempts modelled, over all Senders
MaxSplitMessages == 8   \* SpecSplit: args.messages ranges over 0..MaxSplitMessages
MaxFairMessages == 1    \* FairSolo: args.messages ranges over 0..MaxFairMessages
MaxIdlePasses == 2      \* the history count mon.idle_passes stops here
MaxSplitSenders == 5    \* SpecSplit: args.senders ranges over 0..MaxSplitSenders

\* args.failure_rate and the values of random.random(), in halves: a rate of
\* 0 never fails, a rate of 1/2 may fail, a rate of 2/2 always fails
Rates == {0, 1, 2}
Draws == {0, 1}

\* args.delay: a negative, the zero default and a positive mean delay
Delays == {-1, 0, 1}
\* elapsed = perf_counter() - start, in ticks
ElapsedSamples == {1, 2}

(***************************************************************************)
(* Pure helpers.                                                           *)
(***************************************************************************)
\* Producer.produce: num_senders fresh Message objects (their identities)
Produce(n) == [k \in 1..n |-> k]

\* np.array_split(ary, sections): the first  len % sections  chunks have
\* len // sections + 1  elements, the others  len // sections
SectionSize(total, sections, k) ==
    IF k <= total % sections THEN (total \div sections) + 1
                             ELSE total \div sections

RECURSIVE DivPoint(_, _, _)
\* div_points = cumsum([0] + section sizes)
DivPoint(total, sections, k) ==
    IF k = 0 THEN 0
    ELSE DivPoint(total, sections, k - 1) + SectionSize(total, sections, k)

ArraySplitNoExtras(ary, sections) ==
    [k \in 1..sections |->
        SubSeq(ary, (k - 1) * (Len(ary) \div sections) + 1,
                    k * (Len(ary) \div sections))]

ArraySplit(ary, sections) ==
    [k \in 1..sections |->
        SubSeq(ary, DivPoint(Len(ary), sections, k - 1) + 1,
                    DivPoint(Len(ary), sections, k))]

SectionsRejectedIfNegative(sections) == sections < 0

\* np.array_split raises ValueError unless the number of sections is larger
\* than 0
SectionsRejected(sections) == sections <= 0

\* random.random() < failure_rate, both in halves
Fails(r, rate) == r < rate

DropLastTwo(msgs) == SubSeq(msgs, 1, Len(msgs) - 2)

\* self.__messages[:-1]
DropLast(msgs) == SubSeq(msgs, 1, Len(msgs) - 1)

\* Python's  a and b : a when a is falsy, else b.  A Lock is always truthy.
Truthy(lock) == TRUE
PyAnd(a, b) == IF Truthy(a) THEN b ELSE a

\* the context manager of the with statement of get_and_reset_stats
WithTarget ==
    PyAnd(PyAnd("messages_failed_lock", "messages_sent_lock"),
          "elapsed_time_lock")

\* the while condition of Monitor.monitor
LoopConditionNoLastPass(actively_sending, last_pass) == actively_sending

LoopConditionForever(actively_sending, last_pass) == TRUE

LoopCondition(actively_sending, last_pass) == actively_sending \/ ~last_pass

ResetStatsKeepsSent(s) ==
    [s EXCEPT !.num_messages_failed = 0,
              !.elapsed_time = 0,
              !.elapsed_time_denominator = 0]

\* L81: the four counters are set to zero
ResetStats(s) ==
    [s EXCEPT !.num_messages_failed = 0,
              !.elapsed_time = 0,
              !.elapsed_time_denominator = 0,
              !.num_messages_sent = 0]

JoinReturnsAtOnce(p) == TRUE

\* L132: Thread.join returns once the thread's target has returned or raised
ThreadEnded(p) == p \in {"done", "crashed"}

LoopTestOffByOne(messages) == Len(messages) > 1

\* L55: while len(self.__messages) > 0
LoopTest(messages) == Len(messages) > 0

\* Sender.__init__ for one chunk
NewSender(messages) ==
    [ messages                 |-> messages,
      messages_sent_lock       |-> "free",
      num_messages_sent        |-> 0,
      messages_failed_lock     |-> "free",
      num_messages_failed      |-> 0,
      elapsed_time_lock        |-> "free",
      elapsed_time             |-> 0,
      elapsed_time_denominator |-> 0,
      is_sending               |-> FALSE ]

NewHist ==
    [ ok_attempts     |-> 0,      \* sends that took the success branch
      failed_attempts |-> 0,      \* sends that took the failure branch
      h_sent          |-> 0,      \* sum of messages_sent returned by harvests
      h_failed        |-> 0,      \* sum of messages_failed returned
      h_count         |-> 0,      \* sum of elapsed_time_denominator returned
      harvested       |-> FALSE,  \* get_and_reset_stats was called on it
      quiet           |-> FALSE ] \* a harvest has returned and the Sender's
                                  \* thread has taken no step since

NewMonitor ==
    [ last_pass                |-> FALSE,
      actively_sending         |-> FALSE,
      idx                      |-> 1,
      read                     |-> <<0, 0, 0, 0>>,
      num_messages_sent        |-> 0,
      num_messages_failed      |-> 0,
      total_elapsed_time       |-> 0,
      elapsed_time_denominator |-> 0,
      pass_began_idle          |-> FALSE,
      full_pass_after_idle     |-> FALSE,
      \* history: passes in a row, up to now, entered with no active worker
      idle_passes              |-> 0,
      \* history: the loop has slept (L110) since its last harvest
      slept_since_harvest      |-> FALSE ]

Senders == DOMAIN sender

RECURSIVE SumFailedAttempts(_)
SumFailedAttempts(n) ==
    IF n = 0 THEN 0 ELSE SumFailedAttempts(n - 1) + hist[n].failed_attempts

\* failed attempts so far, over all Senders
TotalFailedAttempts == SumFailedAttempts(Len(hist))

(***************************************************************************)
(* Initial state: main is called with parsed arguments.                    *)
(***************************************************************************)
InitWith(messages, senders) ==
    /\ args \in [ messages     : messages,
                  senders      : senders,
                  delay        : Delays,
                  failure_rate : Rates ]
    /\ pcMain = "L116"
    /\ mainError = "none"
    /\ chunked_messages = <<>>
    /\ threads = 0
    /\ joined = 0
    /\ sender = <<>>
    /\ pc = <<>>
    /\ tmp = <<>>
    /\ pcMon = "unstarted"
    /\ mon = NewMonitor
    /\ snapshot = <<>>
    /\ hist = <<>>

Init == InitWith(0..MaxMessages, 0..MaxSenders)

(***************************************************************************)
(* main                                                                    *)
(***************************************************************************)
\* L116-118: produce and partition; array_split raises ValueError when the
\* number of sections is not larger than 0
Main_L118 ==
    /\ pcMain = "L116"
    /\ IF SectionsRejected(args.senders)
       THEN /\ pcMain' = "raised"
            /\ mainError' = "ValueError"
            /\ UNCHANGED chunked_messages
       ELSE /\ pcMain' = "L120"
            /\ chunked_messages' = ArraySplit(Produce(args.messages), args.senders)
            /\ UNCHANGED mainError
    /\ UNCHANGED << args, threads, joined, sender, pc, tmp, pcMon, mon,
                    snapshot, hist >>

\* L120: one Sender per chunk; __init__ divides std_deviation by mean_delay
Main_L120 ==
    /\ pcMain = "L120"
    /\ IF args.delay = 0
       THEN /\ pcMain' = "raised"
            /\ mainError' = "ZeroDivisionError"
            /\ UNCHANGED << sender, pc, tmp, hist >>
       ELSE /\ pcMain' = "L124"
            /\ sender' = [i \in DOMAIN chunked_messages |->
                             NewSender(chunked_messages[i])]
            /\ pc' = [i \in DOMAIN chunked_messages |-> "unstarted"]
            /\ tmp' = [i \in DOMAIN chunked_messages |-> 0]
            /\ hist' = [i \in DOMAIN chunked_messages |-> NewHist]
            /\ UNCHANGED mainError
    /\ UNCHANGED << args, chunked_messages, threads, joined, pcMon, mon, snapshot >>

\* L124-127: create and start the next thread
Main_L127 ==
    /\ pcMain = "L124"
    /\ threads < Len(sender)
    /\ threads' = threads + 1
    /\ pc' = [pc EXCEPT ![threads + 1] = "started"]
    /\ UNCHANGED << args, pcMain, mainError, chunked_messages, joined, sender,
                    tmp, pcMon, mon, snapshot, hist >>

\* L129-130: all threads started; construct the Monitor and run monitor()
Main_L130 ==
    /\ pcMain = "L124"
    /\ threads = Len(sender)
    /\ pcMain' = "L130"
    /\ pcMon' = "L95"
    /\ mon' = NewMonitor
    /\ UNCHANGED << args, mainError, chunked_messages, threads, joined, sender,
                    pc, tmp, snapshot, hist >>

\* L131-132: monitor() returned; join the next thread (blocks until it ended)
Main_L132 ==
    /\ pcMain = "L130"
    /\ pcMon = "returned"
    /\ joined < threads
    /\ ThreadEnded(pc[joined + 1])
    /\ joined' = joined + 1
    /\ UNCHANGED << args, pcMain, mainError, chunked_messages, threads, sender,
                    pc, tmp, pcMon, mon, snapshot, hist >>

Main_Return ==
    /\ pcMain = "L130"
    /\ pcMon = "returned"
    /\ joined = threads
    /\ pcMain' = "returned"
    /\ UNCHANGED << args, mainError, chunked_messages, threads, joined, sender,
                    pc, tmp, pcMon, mon, snapshot, hist >>

(***************************************************************************)
(* Sender.send_all and Sender.send, run by thread i                        *)
(***************************************************************************)
sameMain == UNCHANGED << args, pcMain, mainError, chunked_messages, threads, joined >>
sameMon == UNCHANGED << pcMon, mon, snapshot >>

\* history: thread i has taken a step since the last harvest returned
Stepped(i) == [hist EXCEPT ![i].quiet = FALSE]

\* L54: the thread begins send_all
SendAll_L54(i) ==
    /\ pc[i] = "started"
    /\ sender' = [sender EXCEPT ![i].is_sending = TRUE]
    /\ pc' = [pc EXCEPT ![i] = "L55"]
    /\ hist' = Stepped(i)
    /\ sameMain /\ sameMon /\ UNCHANGED tmp

\* L55: the while test.  L56-57, L67-68: in send, np.random.gamma raises
\* ValueError for a negative scale, which ends the thread; otherwise send
\* sleeps for the sampled delay
SendAll_L55(i) ==
    /\ pc[i] = "L55"
    /\ pc' = [pc EXCEPT ![i] = IF ~LoopTest(sender[i].messages) THEN "L64"
                                ELSE IF args.delay < 0 THEN "crashed"
                                ELSE "L70"]
    /\ hist' = Stepped(i)
    /\ sameMain /\ sameMon /\ UNCHANGED << sender, tmp >>

\* L70: draw random.random() and branch
Send_L70(i) ==
    /\ pc[i] = "L70"
    /\ \E r \in Draws :
        IF Fails(r, args.failure_rate)
        THEN /\ TotalFailedAttempts < MaxFailedAttempts
             /\ hist' = [hist EXCEPT ![i].failed_attempts = @ + 1,
                                  ![i].quiet = FALSE]
             /\ pc' = [pc EXCEPT ![i] = "L71"]
        ELSE /\ hist' = [hist EXCEPT ![i].ok_attempts = @ + 1,
                                  ![i].quiet = FALSE]
             /\ pc' = [pc EXCEPT ![i] = "L74"]
    /\ sameMain /\ sameMon /\ UNCHANGED << sender, tmp >>

\* L71: with self.__messages_failed_lock
Send_L71(i) ==
    /\ pc[i] = "L71"
    /\ sender[i].messages_failed_lock = "free"
    /\ sender' = [sender EXCEPT ![i].messages_failed_lock = "sender"]
    /\ pc' = [pc EXCEPT ![i] = "L72"]
    /\ hist' = Stepped(i)
    /\ sameMain /\ sameMon /\ UNCHANGED tmp

\* L72: self.__num_messages_failed += 1, the read
Send_L72_read(i) ==
    /\ pc[i] = "L72"
    /\ tmp' = [tmp EXCEPT ![i] = sender[i].num_messages_failed]
    /\ pc' = [pc EXCEPT ![i] = "L72w"]
    /\ hist' = Stepped(i)
    /\ sameMain /\ sameMon /\ UNCHANGED sender

\* L72: the write; leave the with block; L73 return False; L59 is false
Send_L72_write(i) ==
    /\ pc[i] = "L72w"
    /\ sender' = [sender EXCEPT ![i].num_messages_failed = tmp[i] + 1,
                                ![i].messages_failed_lock = "free"]
    /\ tmp' = [tmp EXCEPT ![i] = 0]
    /\ pc' = [pc EXCEPT ![i] = "L55"]
    /\ hist' = Stepped(i)
    /\ sameMain /\ sameMon

\* L74: with self.__messages_sent_lock
Send_L74(i) ==
    /\ pc[i] = "L74"
    /\ sender[i].messages_sent_lock = "free"
    /\ sender' = [sender EXCEPT ![i].messages_sent_lock = "sender"]
    /\ pc' = [pc EXCEPT ![i] = "L75"]
    /\ hist' = Stepped(i)
    /\ sameMain /\ sameMon /\ UNCHANGED tmp

\* L75: self.__num_messages_sent += 1, the read
Send_L75_read(i) ==
    /\ pc[i] = "L75"
    /\ tmp' = [tmp EXCEPT ![i] = sender[i].num_messages_sent]
    /\ pc' = [pc EXCEPT ![i] = "L75w"]
    /\ hist' = Stepped(i)
    /\ sameMain /\ sameMon /\ UNCHANGED sender

\* L75: the write; leave the with block; L76 return True; L59 is true
Send_L75_write(i) ==
    /\ pc[i] = "L75w"
    /\ sender' = [sender EXCEPT ![i].num_messages_sent = tmp[i] + 1,
                                ![i].messages_sent_lock = "free"]
    /\ tmp' = [tmp EXCEPT ![i] = 0]
    /\ pc' = [pc EXCEPT ![i] = "L60"]
    /\ hist' = Stepped(i)
    /\ sameMain /\ sameMon

\* L60: with self.__elapsed_time_lock
SendAll_L60(i) ==
    /\ pc[i] = "L60"
    /\ sender[i].elapsed_time_lock = "free"
    /\ sender' = [sender EXCEPT ![i].elapsed_time_lock = "sender"]
    /\ pc' = [pc EXCEPT ![i] = "L61"]
    /\ hist' = Stepped(i)
    /\ sameMain /\ sameMon /\ UNCHANGED tmp

\* L61-62: both updates, then leave the with block;
\* L63: drop the message that was sent
SendAll_L62(i) ==
    /\ pc[i] = "L61"
    /\ \E elapsed \in ElapsedSamples :
        sender' = [sender EXCEPT ![i].elapsed_time = @ + elapsed,
                                 ![i].elapsed_time_denominator = @ + 1,
                                 ![i].elapsed_time_lock = "free",
                                 ![i].messages = DropLast(@)]
    /\ pc' = [pc EXCEPT ![i] = "L55"]
    /\ hist' = Stepped(i)
    /\ sameMain /\ sameMon /\ UNCHANGED tmp

\* L64: send_all returns and the thread ends
SendAll_L64(i) ==
    /\ pc[i] = "L64"
    /\ sender' = [sender EXCEPT ![i].is_sending = FALSE]
    /\ pc' = [pc EXCEPT ![i] = "done"]
    /\ hist' = Stepped(i)
    /\ sameMain /\ sameMon /\ UNCHANGED tmp

(***************************************************************************)
(* Monitor.monitor                                                         *)
(***************************************************************************)
sameSenderThreads == UNCHANGED << pc, tmp >>

\* every Sender's send_all has run to its end (L64 executed)
AllReturned == \A i \in Senders : pc[i] = "done"

\* L95
Mon_L95 ==
    /\ pcMon = "L95"
    /\ mon' = [mon EXCEPT !.last_pass = FALSE, !.idx = 1]
    /\ pcMon' = "L96"
    /\ sameMain /\ sameSenderThreads /\ UNCHANGED << sender, snapshot, hist >>

\* L96: any(...) reads the next is_sending; it stops at the first True.
\* Once actively_sending is bound the while condition is decided.
Mon_L96 ==
    /\ pcMon = "L96"
    /\ IF sender[mon.idx].is_sending
       THEN /\ mon' = [mon EXCEPT !.actively_sending = TRUE, !.idx = 1]
            /\ pcMon' = IF LoopCondition(TRUE, mon.last_pass) THEN "L97" ELSE "L111"
       ELSE IF mon.idx < Len(sender)
       THEN /\ mon' = [mon EXCEPT !.idx = @ + 1]
            /\ pcMon' = "L96"
       ELSE /\ mon' = [mon EXCEPT !.actively_sending = FALSE, !.idx = 1]
            /\ pcMon' = IF LoopCondition(FALSE, mon.last_pass) THEN "L97" ELSE "L111"
    /\ sameMain /\ sameSenderThreads /\ UNCHANGED << sender, snapshot, hist >>

\* L97; the harvest pass over the senders begins
Mon_L97 ==
    /\ pcMon = "L97"
    /\ mon' = [mon EXCEPT !.last_pass = ~mon.actively_sending,
                          !.idx = 1,
                          !.pass_began_idle = AllReturned,
                          !.idle_passes = IF mon.actively_sending THEN 0
                                          ELSE IF @ < MaxIdlePasses THEN @ + 1
                                          ELSE @]
    /\ pcMon' = "L79"
    /\ sameMain /\ sameSenderThreads /\ UNCHANGED << sender, snapshot, hist >>

\* L99, L79: get_and_reset_stats enters its with statement
Mon_L79 ==
    /\ pcMon = "L79"
    /\ sender[mon.idx][WithTarget] = "free"
    /\ sender' = [sender EXCEPT ![mon.idx][WithTarget] = "monitor"]
    /\ hist' = [hist EXCEPT ![mon.idx].harvested = TRUE]
    /\ pcMon' = "L80"
    /\ sameMain /\ sameSenderThreads /\ UNCHANGED << mon, snapshot >>

\* L80: read the four counters
Mon_L80 ==
    /\ pcMon = "L80"
    /\ mon' = [mon EXCEPT !.read = << sender[mon.idx].num_messages_failed,
                                      sender[mon.idx].elapsed_time,
                                      sender[mon.idx].elapsed_time_denominator,
                                      sender[mon.idx].num_messages_sent >>]
    /\ pcMon' = "L81"
    /\ sameMain /\ sameSenderThreads /\ UNCHANGED << sender, snapshot, hist >>

\* L81-82: zero the four counters, leave the with block and return;
\* L100-103: add the returned values to the Monitor's totals
Mon_L81 ==
    /\ pcMon = "L81"
    /\ sender' = [sender EXCEPT ![mon.idx] =
                      [ResetStats(sender[mon.idx]) EXCEPT ![WithTarget] = "free"]]
    /\ mon' = [mon EXCEPT !.num_messages_failed = @ + mon.read[1],
                          !.total_elapsed_time = @ + mon.read[2],
                          !.elapsed_time_denominator = @ + mon.read[3],
                          !.num_messages_sent = @ + mon.read[4],
                          !.read = <<0, 0, 0, 0>>,
                          !.slept_since_harvest = FALSE,
                          !.idx = IF mon.idx < Len(sender) THEN mon.idx + 1 ELSE 1]
    /\ hist' = [hist EXCEPT ![mon.idx].h_failed = @ + mon.read[1],
                            ![mon.idx].h_count = @ + mon.read[3],
                            ![mon.idx].h_sent = @ + mon.read[4],
                            ![mon.idx].quiet = TRUE]
    /\ pcMon' = IF mon.idx < Len(sender) THEN "L79" ELSE "L104"
    /\ sameMain /\ sameSenderThreads /\ UNCHANGED snapshot

\* L104-109: show the totals
Mon_L109 ==
    /\ pcMon = "L104"
    /\ snapshot' = [ sent    |-> mon.num_messages_sent,
                     failed  |-> mon.num_messages_failed,
                     elapsed |-> mon.total_elapsed_time,
                     count   |-> mon.elapsed_time_denominator ]
    /\ mon' = [mon EXCEPT !.full_pass_after_idle = @ \/ mon.pass_began_idle]
    /\ pcMon' = "L110"
    /\ sameMain /\ sameSenderThreads /\ UNCHANGED << sender, hist >>

\* L110: sleep for update_delay, then back to the while test
Mon_L110 ==
    /\ pcMon = "L110"
    /\ mon' = [mon EXCEPT !.slept_since_harvest = TRUE]
    /\ pcMon' = "L96"
    /\ sameMain /\ sameSenderThreads /\ UNCHANGED << sender, snapshot, hist >>

\* L111-112: the loop has ended
Mon_L111 ==
    /\ pcMon = "L111"
    /\ pcMon' = "L113"
    /\ sameMain /\ sameSenderThreads /\ UNCHANGED << sender, mon, snapshot, hist >>

\* L113: a key is pressed and monitor() returns
Mon_L113 ==
    /\ pcMon = "L113"
    /\ pcMon' = "returned"
    /\ sameMain /\ sameSenderThreads /\ UNCHANGED << sender, mon, snapshot, hist >>

(***************************************************************************)
(* Specification                                                           *)
(***************************************************************************)
Next ==
    \/ Main_L118 \/ Main_L120 \/ Main_L127 \/ Main_L130 \/ Main_L132
    \/ Main_Return
    \/ \E i \in Senders : SendAll_L54(i)
    \/ \E i \in Senders : SendAll_L55(i)
    \/ \E i \in Senders : Send_L70(i)
    \/ \E i \in Senders : Send_L71(i)
    \/ \E i \in Senders : Send_L72_read(i)
    \/ \E i \in Senders : Send_L72_write(i)
    \/ \E i \in Senders : Send_L74(i)
    \/ \E i \in Senders : Send_L75_read(i)
    \/ \E i \in Senders : Send_L75_write(i)
    \/ \E i \in Senders : SendAll_L60(i)
    \/ \E i \in Senders : SendAll_L62(i)
    \/ \E i \in Senders : SendAll_L64(i)
    \/ Mon_L95 \/ Mon_L96 \/ Mon_L97 \/ Mon_L79 \/ Mon_L80 \/ Mon_L81
    \/ Mon_L109 \/ Mon_L110 \/ Mon_L111 \/ Mon_L113

Spec == Init /\ [][Next]_vars

\* the program run with one Sender (--senders 1, the default)
Solo == {1}
InitSolo == InitWith(0..MaxMessages, Solo)
SpecSolo == InitSolo /\ [][Next]_vars

\* the program run with at most one Sender, sender counts that
\* np.array_split rejects included
InitFew == InitWith(0..MaxMessages, {-1, 0, 1})
SpecFew == InitFew /\ [][Next]_vars

\* the steps of the main thread, of Sender i's thread and of the Monitor up
\* to its prompt (the key press awaited at L113 is the user's)
MainStep ==
    \/ Main_L118 \/ Main_L120 \/ Main_L127 \/ Main_L130 \/ Main_L132
    \/ Main_Return

SenderStep(i) ==
    \/ SendAll_L54(i) \/ SendAll_L55(i) \/ Send_L70(i) \/ Send_L71(i)
    \/ Send_L72_read(i) \/ Send_L72_write(i) \/ Send_L74(i)
    \/ Send_L75_read(i) \/ Send_L75_write(i) \/ SendAll_L60(i)
    \/ SendAll_L62(i) \/ SendAll_L64(i)

MonitorStep ==
    \/ Mon_L95 \/ Mon_L96 \/ Mon_L97 \/ Mon_L79 \/ Mon_L80 \/ Mon_L81
    \/ Mon_L109 \/ Mon_L110 \/ Mon_L111

\* Every thread of the one-Sender program that can take a step is scheduled
\* again.  A Sender blocked in
\* the acquire of L60 gets the lock at one of the Monitor's releases: the
\* Monitor sleeps for update_delay (L110) before it acquires the lock again.
Fairness ==
    /\ WF_vars(MainStep)
    /\ WF_vars(MonitorStep)
    /\ \A i \in Solo :
           /\ WF_vars(i \in Senders /\ SenderStep(i))
           /\ SF_vars(i \in Senders /\ SendAll_L60(i))

\* the program run with one Sender under fair scheduling
InitFair == InitWith(0..MaxFairMessages, Solo)
FairSolo == InitFair /\ [][Next]_vars /\ Fairness

\* the partitioning step of main alone, over a wider range of arguments
InitSplit == InitWith(0..MaxSplitMessages, 0..MaxSplitSenders)
NextSplit == Main_L118
SpecSplit == InitSplit /\ [][NextSplit]_vars

(***************************************************************************)
(* Vocabulary of the properties                                            *)
(***************************************************************************)
\* number of messages originally assigned to Sender i
Assigned(i) == Len(chunked_messages[i])

\* random.random() < failure_rate is false / true for every draw
NeverFails == \A r \in Draws : ~Fails(r, args.failure_rate)
AlwaysFails == \A r \in Draws : Fails(r, args.failure_rate)

\* the configuration the command line accepts and Sender.__init__ survives:
\* a positive mean delay and a failure rate below 1
ValidConfig == args.delay > 0 /\ \E r \in Draws : ~Fails(r, args.failure_rate)

\* thread i is between attempts: no send is in flight
BetweenAttempts(i) == pc[i] \in {"unstarted", "started", "L55", "L64", "done"}

\* thread i is inside one of the with blocks of send / send_all
InCriticalSection(i) == pc[i] \in {"L72", "L72w", "L75", "L75w", "L61"}

\* thread i has an increment outstanding for an attempt already decided
IncrementInProgress(i) ==
    pc[i] \in {"L71", "L72", "L72w", "L74", "L75", "L75w", "L60", "L61"}

\* get_and_reset_stats is running on Sender i
HarvestInProgress(i) == pcMon \in {"L80", "L81"} /\ mon.idx = i

\* the Monitor has read Sender i's counters and not yet zeroed them
BetweenReadAndZero(i) == pcMon = "L81" /\ mon.idx = i

\* the while loop of monitor() has ended
LoopExited == pcMon \in {"L111", "L113", "returned"}

(***************************************************************************)
(* Claims                                                                  *)
(***************************************************************************)

\* C1: whenever no increment and no harvest of a Sender is in progress, the
\* values its harvests have returned plus its current counters account for
\* exactly what it has done: sent for the successful sends, failed for the
\* failed attempts, and the elapsed-time denominator for the successful sends.
C1_NoLostOrDoubleCount ==
    \A i \in Senders :
        (ValidConfig /\ ~IncrementInProgress(i) /\ ~HarvestInProgress(i)) =>
            /\ hist[i].h_sent + sender[i].num_messages_sent = hist[i].ok_attempts
            /\ hist[i].h_failed + sender[i].num_messages_failed
                   = hist[i].failed_attempts
            /\ hist[i].h_count + sender[i].elapsed_time_denominator
                   = hist[i].ok_attempts

\* C2: the Monitor is never between reading and zeroing a Sender's counters
\* while that Sender's thread is inside a with block that increments its
\* sent counter, its failed counter or its elapsed-time pair.
C2_HarvestExcludesIncrements ==
    \A i \in Senders :
        ValidConfig => ~(BetweenReadAndZero(i) /\ InCriticalSection(i))

\* C3: for each Sender, sent + failed + the messages still pending + the sent
\* and failed counts already harvested from it equals the number of messages
\* assigned to it.  Stated at the states the claim's "every reachable state"
\* includes where no attempt of that Sender is in flight.
C3_Conservation ==
    \A i \in Senders :
        (ValidConfig /\ BetweenAttempts(i)) =>
            sender[i].num_messages_sent + sender[i].num_messages_failed
              + Len(sender[i].messages) + hist[i].h_sent + hist[i].h_failed
              = Assigned(i)

\* C4: every attempt, successful or failed, removes its message from pending:
\* between attempts the pending messages are the assigned ones less the
\* attempts made, and a Sender never makes more attempts than it has messages.
C4_NoRetry ==
    \A i \in Senders : ValidConfig =>
        /\ hist[i].ok_attempts + hist[i].failed_attempts <= Assigned(i)
        /\ BetweenAttempts(i) =>
               Len(sender[i].messages)
                 = Assigned(i) - (hist[i].ok_attempts + hist[i].failed_attempts)

\* C5: with a failure rate of 0 and no harvest before send_all has completed,
\* a Sender assigned K messages ends with sent = K, failed = 0 and no
\* pending message.
C5_AllSent ==
    \A i \in Senders :
        (NeverFails /\ pc[i] = "done" /\ ~hist[i].harvested) =>
            /\ sender[i].num_messages_sent = Assigned(i)
            /\ sender[i].num_messages_failed = 0
            /\ sender[i].messages = <<>>

\* C5 witness: a Sender of two messages that never fails has completed
\* send_all before any harvest.
C5_Witness ==
    \E i \in Senders :
        /\ NeverFails /\ pc[i] = "done" /\ ~hist[i].harvested
        /\ Assigned(i) >= 2
        /\ sender[i].num_messages_sent = Assigned(i)

\* C6: when every attempt fails, send_all completes with sent = 0 and
\* failed = K (counting what was harvested): so a Sender never makes more
\* than K failed attempts, and once it is done its counts are 0 and K.
C6_AllFailed ==
    \A i \in Senders :
        (AlwaysFails /\ args.delay > 0) =>
            /\ hist[i].failed_attempts <= Assigned(i)
            /\ pc[i] = "done" =>
                   /\ sender[i].num_messages_sent + hist[i].h_sent = 0
                   /\ sender[i].num_messages_failed + hist[i].h_failed
                          = Assigned(i)

\* C7: with a failure rate of 0, once the Monitor's loop has ended the last
\* snapshot shows sent = the number of generated messages and failed = 0.
C7_FinalSnapshot ==
    (ValidConfig /\ NeverFails /\ LoopExited) =>
        /\ snapshot.sent = args.messages
        /\ snapshot.failed = 0

\* C8: once the Monitor's loop has ended, the Monitor has completed a harvest
\* pass over all Senders that began after every Sender had returned from
\* send_all.
C8_PassAfterLastWorker ==
    (ValidConfig /\ LoopExited) => mon.full_pass_after_idle

\* C9: once the Monitor's loop has ended, no Sender has a pending message.
C9_CompletionOnlyWhenDone ==
    (ValidConfig /\ LoopExited) => \A i \in Senders : sender[i].messages = <<>>

RECURSIVE Concat(_, _)
\* the first k chunks, concatenated
Concat(chunks, k) == IF k = 0 THEN <<>> ELSE Concat(chunks, k - 1) \o chunks[k]

\* the multiset of the elements of a sequence
BagOfSeq(seq) ==
    [x \in {seq[j] : j \in DOMAIN seq} |->
        Cardinality({j \in DOMAIN seq : seq[j] = x})]

\* main has passed np.array_split without an exception
SplitDone == pcMain # "L116" /\ mainError # "ValueError"

\* C10: for S >= 1 sections and N messages, np.array_split yields exactly S
\* chunks whose sizes sum to N, whose elements are as a multiset the produced
\* messages, and whose sizes differ pairwise by at most one.
C10_Partition ==
    SplitDone =>
        /\ Len(chunked_messages) = args.senders
        /\ Len(Concat(chunked_messages, Len(chunked_messages))) = args.messages
        /\ BagOfSeq(Concat(chunked_messages, Len(chunked_messages)))
               = BagOfSeq(Produce(args.messages))
        /\ \A j, k \in DOMAIN chunked_messages :
               Len(chunked_messages[j]) - Len(chunked_messages[k]) <= 1

\* C10 witness: a split into three or more chunks of unequal, non-zero sizes.
C10_Witness ==
    /\ SplitDone
    /\ args.senders >= 3
    /\ args.messages > args.senders
    /\ \E j, k \in DOMAIN chunked_messages :
           Len(chunked_messages[j]) # Len(chunked_messages[k])

\* C11: with a mean delay of 0, constructing the Senders raises no division
\* error: main gets past line 120.
C11_ZeroDelayConstructs ==
    args.delay = 0 => mainError # "ZeroDivisionError"

\* the Sender configuration is outside meanDelay >= 0, failureRate in [0, 1)
InvalidSenderConfig == args.delay < 0 \/ AlwaysFails

\* C12: a negative mean delay or a failure rate outside [0, 1) is rejected
\* when the Senders are constructed: main never gets past line 120 with it,
\* no thread is started and no send is attempted.
C12_RejectedAtConstruction ==
    InvalidSenderConfig =>
        /\ pcMain \in {"L116", "L120", "raised"}
        /\ sender = <<>>
        /\ threads = 0

\* C13: with a number of senders <= 0, main ends at np.array_split with the
\* error it raises; no Sender is constructed, no thread is started and the
\* Monitor never runs.
C13_NoSendersRejected ==
    args.senders <= 0 =>
        /\ pcMain \in {"L116", "raised"}
        /\ pcMain = "raised" => mainError = "ValueError"
        /\ chunked_messages = <<>>
        /\ sender = <<>>
        /\ threads = 0
        /\ pcMon = "unstarted"

\* C13 witness: main was called with 0 senders and has raised at the split.
C13_Witness ==
    /\ args.senders = 0
    /\ args.messages > 0
    /\ pcMain = "raised"
    /\ mainError = "ValueError"

\* the four counters of Sender i
Counters(i) == << sender[i].num_messages_failed, sender[i].elapsed_time,
                  sender[i].elapsed_time_denominator,
                  sender[i].num_messages_sent >>

\* C14: when get_and_reset_stats runs on a Sender whose thread has taken no
\* step since the previous call returned, the values it has read (and will
\* return) are all zero and the four counters are zero.
C14_SecondHarvestIsZero ==
    \A i \in Senders :
        (BetweenReadAndZero(i) /\ hist[i].quiet) =>
            /\ mon.read = <<0, 0, 0, 0>>
            /\ Counters(i) = <<0, 0, 0, 0>>

\* C14 witness: a second call in a row, after a first call that returned a
\* sent message and its elapsed time, is about to return.
C14_Witness ==
    \E i \in Senders :
        /\ BetweenReadAndZero(i) /\ hist[i].quiet
        /\ hist[i].h_sent > 0 /\ mon.total_elapsed_time > 0
        /\ mon.read = <<0, 0, 0, 0>>

\* C15: main has returned only if the Monitor has completed and every worker
\* thread has ended (send_all returned, or, for a negative mean delay, raised
\* out of the thread at its first send); and a worker thread has been joined
\* only if Monitor.monitor has returned.
C15_MainReturnsLast ==
    /\ pcMain = "returned" =>
           /\ pcMon = "returned"
           /\ \A i \in Senders :
                  \/ pc[i] = "done" /\ sender[i].messages = <<>>
                  \/ pc[i] = "crashed" /\ args.delay < 0
    /\ joined > 0 => pcMon = "returned"

\* C15 witness: main has returned after joining a worker that was still
\* sending when the Monitor completed (its last counts were never harvested).
C15_Witness ==
    /\ pcMain = "returned" /\ joined > 0
    /\ \E i \in Senders : sender[i].num_messages_sent > 0

\* the Monitor is inside a pass, after L97 and up to the sleep at L110
InPass == pcMon \in {"L79", "L80", "L81", "L104", "L110"}

\* C16 (as claimed): the Monitor's loop ends only after two passes in a row
\* entered with no active worker (so never after a single or a first-ever
\* such pass), and it does not sleep between the last harvest and the end.
C16_EndsAfterSecondIdlePass ==
    (ValidConfig /\ LoopExited) =>
        /\ mon.idle_passes >= 2
        /\ ~mon.slept_since_harvest

\* C16 (amended): the loop ends exactly when the test at L96 finds no active
\* worker and the pass before it was entered with no active worker; a pass is
\* entered when the test finds an active worker or the pass before it was
\* entered with one (or there was none).  One pass entered with no active
\* worker is enough, every pass ends with the sleep, the last one too, and
\* the test that ends the loop does no harvest.
C16_ExitRule ==
    /\ LoopExited =>
           /\ ~mon.actively_sending /\ mon.last_pass
           /\ mon.idle_passes = 1
           /\ mon.slept_since_harvest
    /\ pcMon = "L97" =>
           /\ mon.actively_sending \/ ~mon.last_pass
           /\ mon.last_pass => mon.idle_passes = 1
    /\ InPass =>
           /\ mon.last_pass = ~mon.actively_sending
           /\ mon.idle_passes = (IF mon.last_pass THEN 1 ELSE 0)

\* C16 witness: the loop has ended after a single pass entered with no active
\* worker, which harvested a Sender with messages and then slept.
C16_Witness ==
    /\ LoopExited /\ mon.idle_passes = 1 /\ mon.slept_since_harvest
    /\ \E i \in Senders : hist[i].harvested /\ Assigned(i) > 0

\* C17: every tuple get_and_reset_stats has read holds as many sent messages
\* as elapsed-time samples, and after every pass the Monitor's sent total
\* equals its elapsed-time denominator.
C17_SentEqualsDenominator ==
    ValidConfig =>
        /\ pcMon = "L81" => mon.read[4] = mon.read[3]
        /\ pcMon = "L110" =>
               mon.num_messages_sent = mon.elapsed_time_denominator

\* Sender i's thread is in the failed branch of send() (L71-L73)
InFailedBranch(i) == pc[i] \in {"L71", "L72", "L72w"}

\* C18: the steps of a failed send attempt leave sent, elapsed_time and
\* elapsed_time_denominator as they are; the step that completes the attempt
\* (the write of L72) makes the failed counter exactly one larger than it was
\* and returns to the loop test at L55.
C18_FailedSendFrame ==
    [][\A i \in Senders :
          (ValidConfig /\ InFailedBranch(i) /\ pc'[i] # pc[i]) =>
              /\ sender'[i].num_messages_sent = sender[i].num_messages_sent
              /\ sender'[i].elapsed_time = sender[i].elapsed_time
              /\ sender'[i].elapsed_time_denominator =
                     sender[i].elapsed_time_denominator
              /\ pc[i] = "L72w" =>
                     /\ sender'[i].num_messages_failed =
                            sender[i].num_messages_failed + 1
                     /\ pc'[i] = "L55"]_vars

\* Sender i's send_all has begun (L54 has run) and its flag is False
StartedAndIdle(i) ==
    pc[i] \notin {"unstarted", "started"} /\ ~sender[i].is_sending

\* C19: whenever a Sender's send_all has begun and its is_sending flag is
\* False, its pending messages are empty and send_all has returned, and from
\* then on none of its four counters is ever increased.
C19_IdleMeansFinal ==
    /\ [](\A i \in Senders :
              StartedAndIdle(i) =>
                  sender[i].messages = <<>> /\ pc[i] = "done")
    /\ [][\A i \in Senders :
              StartedAndIdle(i) =>
                  /\ sender'[i].num_messages_sent <= sender[i].num_messages_sent
                  /\ sender'[i].num_messages_failed <=
                         sender[i].num_messages_failed
                  /\ sender'[i].elapsed_time <= sender[i].elapsed_time
                  /\ sender'[i].elapsed_time_denominator <=
                         sender[i].elapsed_time_denominator]_vars

\* C19 witness: a Sender that was given messages has sent one, cleared its
\* flag and is harvested afterwards.
C19_Witness ==
    \E i \in Senders :
        /\ StartedAndIdle(i) /\ Assigned(i) > 0
        /\ hist[i].ok_attempts > 0
        /\ HarvestInProgress(i)

\* Sender i exists and its thread is at label l
At(i, l) == i \in Senders /\ pc[i] = l

\* every Sender was constructed and every send_all has returned
WorkersReturned == sender # <<>> /\ AllReturned

\* the Monitor's loop has ended and the prompt of L111-112 is shown
AtPrompt == pcMon \in {"L113", "returned"}

\* C20: under fair scheduling, once every Sender's send_all has returned the
\* Monitor's loop ends and the Monitor reaches its prompt; and every thread
\* that waits for a lock (a Sender at L71, L74 or L60, the Monitor at L79)
\* gets it.
C20_MonitorReachesPrompt ==
    /\ WorkersReturned ~> AtPrompt
    /\ (pcMon = "L79") ~> (pcMon = "L80")
    /\ \A i \in Solo :
           /\ At(i, "L71") ~> At(i, "L72")
           /\ At(i, "L74") ~> At(i, "L75")
           /\ At(i, "L60") ~> At(i, "L61")

\* C20 witness: every send_all has returned, the Monitor has harvested a sent
\* message and has reached its prompt.
C20_Witness ==
    /\ WorkersReturned /\ pcMon = "L113"
    /\ \E i \in Senders : hist[i].h_sent > 0

=============================================================================
